---- MODULE Spec2Model ----
(***************************************************************************)
(* cookie.io: the analyzePhoto pipeline (services/geminiService) and the   *)
(* App component (App.tsx) that drives it.                                  *)
(*                                                                          *)
(* JavaScript values are tagged records, so that undefined, null, strings  *)
(* and objects can be compared with each other.  A string is a sequence of *)
(* glyphs; the fixed texts of the program (the prompt template, the        *)
(* fallbacks, the pieces of a data URL) are single glyphs.                 *)
(***************************************************************************)
EXTENDS Integers, Sequences, FiniteSets, TLC

\* ---------------------------------------------------------------- bounds
MaxLen == 2        \* longest text a service returns
MaxInFlight == 2   \* run slots (promises alive at the same time)
MaxAudios == 2     \* Audio elements alive at the same time

\* ------------------------------------------------------- JavaScript values
Undefined == [t |-> "undefined"]
Null == [t |-> "null"]
Str(s) == [t |-> "string", s |-> s]
Err(m) == [t |-> "error", message |-> m]

\* ToBoolean: undefined, null and "" are falsy, objects are truthy
Truthy(v) == IF v.t = "string" THEN v.s # <<>> ELSE v.t \notin {"undefined", "null"}
\* a || b
Or(a, b) == IF Truthy(a) THEN a ELSE b

WhiteSpace == {" ", "\n", "\t"}

RECURSIVE TrimStart(_)
TrimStart(s) == IF s # <<>> /\ Head(s) \in WhiteSpace THEN TrimStart(Tail(s)) ELSE s

RECURSIVE TrimEnd(_)
TrimEnd(s) ==
  IF s # <<>> /\ s[Len(s)] \in WhiteSpace THEN TrimEnd(SubSeq(s, 1, Len(s) - 1)) ELSE s

\* String.prototype.trim
Trim(s) == TrimEnd(TrimStart(s))
\* v?.trim()
OptTrim(v) == IF v.t \in {"undefined", "null"} THEN Undefined ELSE Str(Trim(v.s))

\* ------------------------------------------------------------ the inputs
TextAlphabet == {" ", "\n", "E"}
Strings == UNION {[1..k -> TextAlphabet] : k \in 0..MaxLen}
\* response.text of a generateContent call that succeeded
TextResponses == {Undefined} \cup {Str(s) : s \in Strings}
\* what a generateContent call throws
ServiceErrors == {Err(Str(<<"timeout">>)), Err(Str(<<>>)), Err(Undefined)}

Ok(v) == [ok |-> TRUE, value |-> v]
Failed(e) == [ok |-> FALSE, value |-> e]
NotYet == [ok |-> FALSE, value |-> Undefined]

\* the parts of a text-to-speech candidate
AudioPart(d) == [inlineData |-> [t |-> "object", data |-> d]]
TextPart == [inlineData |-> Undefined]
Candidates(parts) == [t |-> "array", items |-> <<[content |-> [parts |-> parts]]>>]
TtsResponses ==
  { [candidates |-> Undefined],
    [candidates |-> [t |-> "array", items |-> <<>>]],
    [candidates |-> Candidates(<<>>)],
    [candidates |-> Candidates(<<AudioPart(Str(<<"Q">>))>>)],
    [candidates |-> Candidates(<<AudioPart(Str(<<>>))>>)],
    [candidates |-> Candidates(<<AudioPart(Undefined)>>)],
    [candidates |-> Candidates(<<TextPart, AudioPart(Str(<<"Q">>))>>)] }

\* reader.result after readAsDataURL: a data URL, or null when the read failed
PngFile == Str(<<"data:", "image/", "p", "n", "g", ";base64,", "A">>)
SvgFile == Str(<<"data:", "image/", "s", "v", "g", "+", "x", "m", "l", ";base64,", "B">>)
IcoFile == Str(<<"data:", "image/", "x", "-", "i", "c", "o", ";base64,", "A">>)
Jp2File == Str(<<"data:", "image/", "j", "p", "2", ";base64,", "A">>)
EmptyFile == Str(<<"data:", "image/", "p", "n", "g", ";base64,">>)
TextFile == Str(<<"data:", "text/", "p", "l", "a", "i", "n", ";base64,", "A">>)
ReaderResults == {PngFile, SvgFile, IcoFile, Jp2File, EmptyFile, TextFile, Null}
\* e.target.files?.[0]
NoFile == Undefined

\* ------------------------------------------------- base64String.match(...)
\* /^data:(image\/[a-zA-Z+]+);base64,(.+)$/
MimeChars == {"p", "n", "g", "s", "v", "x", "m", "l", "i", "c", "o", "j", "a", "+"}
LineTerminators == {"\n", "\r"}

RECURSIVE MimeRun(_, _)
\* the number of glyphs of [a-zA-Z+] in s from position i on
MimeRun(s, i) == IF i <= Len(s) /\ s[i] \in MimeChars THEN 1 + MimeRun(s, i + 1) ELSE 0

NoMatch == Null
\* mutant: (.*) instead of (.+), an empty payload matches
MatchEmptyData(s) ==
  LET n == MimeRun(s, 3)
      k == 3 + n
  IN IF /\ Len(s) >= 2 /\ s[1] = "data:" /\ s[2] = "image/"
        /\ n >= 1
        /\ Len(s) >= k /\ s[k] = ";base64,"
     THEN [t |-> "match", mimeType |-> Str(SubSeq(s, 2, k - 1)),
           base64Data |-> Str(SubSeq(s, k + 1, Len(s)))]
     ELSE NoMatch
Match(s) ==
  LET n == MimeRun(s, 3)
      k == 3 + n
  IN IF /\ Len(s) >= 2 /\ s[1] = "data:" /\ s[2] = "image/"
        /\ n >= 1
        /\ Len(s) > k /\ s[k] = ";base64,"
        /\ \A j \in (k + 1)..Len(s) : s[j] \notin LineTerminators
     THEN [t |-> "match", mimeType |-> Str(SubSeq(s, 2, k - 1)),
           base64Data |-> Str(SubSeq(s, k + 1, Len(s)))]
     ELSE NoMatch

\* ----------------------------------------------------------- analyzePhoto
UnknownLocation == Str(<<"Unknown Location">>)
HistoryNotAvailable == Str(<<"History not available.">>)
PromptHead == "You are an engaging tour guide. Tell me the history and interesting facts about "
PromptTail == ". Keep it engaging, informative, and concise (around 100-150 words)."

\* mutant: the trim is forgotten
LandmarkNameNoTrim(text) == Or(text, UnknownLocation)
\* identifyResponse.text?.trim() || "Unknown Location"
LandmarkName(text) == Or(OptTrim(text), UnknownLocation)
\* mutant: the template does not interpolate the label of this run
HistoryPromptFixed(landmarkName) ==
  Str(<<PromptHead>> \o UnknownLocation.s \o <<PromptTail>>)
\* the contents of the history call
HistoryPrompt(landmarkName) == Str(<<PromptHead>> \o landmarkName.s \o <<PromptTail>>)
\* mutant: the trim is forgotten
HistoryTextNoTrim(text) == Or(text, HistoryNotAvailable)
\* historyResponse.text?.trim() || "History not available."
HistoryText(text) == Or(OptTrim(text), HistoryNotAvailable)

\* mutant: the first part that carries inline data is taken
AnyInlineData(resp) ==
  IF resp.candidates.t # "array" THEN Undefined
  ELSE IF resp.candidates.items = <<>> THEN Undefined
  ELSE LET parts == resp.candidates.items[1].content.parts
           audio == {k \in DOMAIN parts : parts[k].inlineData.t = "object"}
       IN IF audio = {} THEN Undefined
          ELSE parts[CHOOSE k \in audio : \A j \in audio : k <= j].inlineData.data
\* ttsResponse.candidates?.[0]?.content?.parts?.[0]?.inlineData?.data
FirstInlineData(resp) ==
  IF resp.candidates.t # "array" THEN Undefined
  ELSE IF resp.candidates.items = <<>> THEN Undefined
  ELSE LET parts == resp.candidates.items[1].content.parts
       IN IF parts = <<>> THEN Undefined
          ELSE IF parts[1].inlineData.t # "object" THEN Undefined
          ELSE parts[1].inlineData.data
\* ... || null
AudioBase64(resp) == Or(FirstInlineData(resp), Null)

\* ------------------------------------------------------------------ state
VARIABLES
  appState,    \* 'idle' | 'analyzing' | 'result'
  result,      \* ResultData | null
  error,       \* string | null
  isPlaying,   \* boolean
  audioRef,    \* audioRef.current: 0 for null, else the id of an Audio element
  audios,      \* the Audio elements that exist
  runs,        \* the runs of handleFileSelect that have not finished
  delivered    \* history variable: the run whose outcome the UI took last

vars == <<appState, result, error, isPlaying, audioRef, audios, runs, delivered>>

Slots == 1..MaxInFlight
AudioIds == 1..MaxAudios
NoRun == [pc |-> "none"]
NoAudio == [src |-> Undefined]

InFlight == {i \in Slots : runs[i] # NoRun}
FreeSlots == Slots \ InFlight
Min(S) == CHOOSE x \in S : \A y \in S : x <= y

\* a run of handleFileSelect right after reader.readAsDataURL(file)
NewRun(readerResult) ==
  [pc |-> "reading", readerResult |-> readerResult,
   base64Image |-> Undefined, mimeType |-> Undefined,
   identifyResponse |-> NotYet, landmarkName |-> Undefined,
   historyContents |-> Undefined, historyResponse |-> NotYet,
   historyText |-> Undefined, ttsContents |-> Undefined,
   ttsResponse |-> NotYet, audioBase64 |-> Undefined,
   returned |-> Undefined, thrown |-> Undefined,
   calls |-> <<>>]   \* the generateContent calls issued, in order

Init ==
  /\ appState = "idle"
  /\ result = Null
  /\ error = Null
  /\ isPlaying = FALSE
  /\ audioRef = 0
  /\ audios = [a \in AudioIds |-> NoAudio]
  /\ runs = [i \in Slots |-> NoRun]
  /\ delivered = NoRun

\* ------------------------------------------------------------- rendering
\* mutant: the file inputs are rendered in every view
InputsMountedAlways == TRUE
\* the two file inputs are rendered in the idle view only
InputsMounted == appState = "idle"
\* the result view, with the reset button
ResultViewMounted == appState = "result" /\ Truthy(result)
\* mutant: the control tests audioBase64 against undefined only
AudioControlNotUndefined ==
  IF ~ResultViewMounted THEN "none"
  ELSE IF result.audioBase64 # Undefined
       THEN (IF isPlaying THEN "Pause Guide" ELSE "Play Audio Guide")
       ELSE "Audio unavailable"
\* the bottom control of the result view
AudioControl ==
  IF ~ResultViewMounted THEN "none"
  ELSE IF Truthy(result.audioBase64)
       THEN (IF isPlaying THEN "Pause Guide" ELSE "Play Audio Guide")
       ELSE "Audio unavailable"

\* ---------------------------------------------------------- Audio element
\* audio.pause(): playback stops and a pending play() promise is rejected
Pause(au) ==
  [au EXCEPT !.playing = FALSE,
             !.playPending = IF au.playPending = "pending" THEN "aborted" ELSE @]
\* an element nothing refers to any more
Collect(as, ref) ==
  [a \in AudioIds |->
     IF a # ref /\ as[a] # NoAudio /\ as[a].playPending = "none" THEN NoAudio ELSE as[a]]

\* mutant: the cleanup pauses the element and keeps the reference
EffectCleanupKeepsRef(as, ref) ==
  IF ref # 0 THEN [audios |-> [as EXCEPT ![ref] = Pause(as[ref])], audioRef |-> ref]
  ELSE [audios |-> as, audioRef |-> ref]
\* the cleanup of the effect on [result]
EffectCleanup(as, ref) ==
  IF ref # 0 THEN [audios |-> [as EXCEPT ![ref] = Pause(as[ref])], audioRef |-> 0]
  ELSE [audios |-> as, audioRef |-> ref]

\* the effect on [result]: cleanup of the previous one, then a new Audio
ResultEffect(as, ref, res) ==
  LET c == EffectCleanup(as, ref)
      kept == Collect(c.audios, 0)
      free == {a \in AudioIds : kept[a] = NoAudio}
  IN IF Truthy(res) /\ Truthy(res.audioBase64)
     THEN LET a == Min(free)
          IN [audios |-> [kept EXCEPT ![a] =
                            [src |-> Str(<<"data:audio/mp3;base64,">> \o res.audioBase64.s),
                             playing |-> FALSE, playPending |-> "pending"]],
              audioRef |-> a]
     ELSE [audios |-> kept, audioRef |-> c.audioRef]

\* ---------------------------------------------------- handleFileSelect
\* mutant: the error of the previous run is not cleared
handleFileSelectKeepsError ==
  /\ InputsMounted
  /\ \E file \in ReaderResults \cup {NoFile} :
       IF file = NoFile
       THEN UNCHANGED vars
       ELSE /\ FreeSlots # {}
            /\ appState' = "analyzing"
            /\ runs' = [runs EXCEPT ![Min(FreeSlots)] = NewRun(file)]
            /\ delivered' = NoRun
            /\ UNCHANGED <<error, result, isPlaying, audioRef, audios>>
handleFileSelect ==
  /\ InputsMounted
  /\ \E file \in ReaderResults \cup {NoFile} :
       IF file = NoFile
       THEN UNCHANGED vars
       ELSE /\ FreeSlots # {}
            /\ error' = Null
            /\ appState' = "analyzing"
            /\ runs' = [runs EXCEPT ![Min(FreeSlots)] = NewRun(file)]
            /\ delivered' = NoRun
            /\ UNCHANGED <<result, isPlaying, audioRef, audios>>

\* mutant: the history call is issued together with the identification call
ReaderLoadEndParallel(i) ==
  /\ runs[i].pc = "reading"
  /\ LET base64String == runs[i].readerResult
         match == IF base64String.t = "string" THEN Match(base64String.s) ELSE NoMatch
     IN IF match = NoMatch
        THEN runs' = [runs EXCEPT ![i] = NoRun]
        ELSE runs' = [runs EXCEPT ![i].pc = "identify",
                                  ![i].mimeType = match.mimeType,
                                  ![i].base64Image = match.base64Data,
                                  ![i].historyContents = HistoryPrompt(UnknownLocation),
                                  ![i].calls = @ \o <<"identify", "history">>]
  /\ UNCHANGED <<appState, result, error, isPlaying, audioRef, audios, delivered>>
\* reader.onloadend up to the call of analyzePhoto
ReaderLoadEnd(i) ==
  /\ runs[i].pc = "reading"
  /\ LET base64String == runs[i].readerResult
         match == IF base64String.t = "string" THEN Match(base64String.s) ELSE NoMatch
     IN IF match = NoMatch
        THEN \* throws inside the async callback: nothing catches it
             runs' = [runs EXCEPT ![i] = NoRun]
        ELSE runs' = [runs EXCEPT ![i].pc = "identify",
                                  ![i].mimeType = match.mimeType,
                                  ![i].base64Image = match.base64Data,
                                  ![i].calls = Append(@, "identify")]
  /\ UNCHANGED <<appState, result, error, isPlaying, audioRef, audios, delivered>>

\* mutant: the outer catch logs and returns what it has
OuterCatchSwallow(run, e) ==
  [run EXCEPT !.pc = "resolved",
              !.returned = [t |-> "object", landmark |-> run.landmarkName,
                            history |-> run.historyText, audioBase64 |-> Null]]
\* the outer catch of analyzePhoto: log and rethrow
OuterCatch(run, e) == [run EXCEPT !.pc = "rejected", !.thrown = e]

IdentifyReturns(i) ==
  /\ runs[i].pc = "identify"
  /\ \E text \in TextResponses :
       LET landmarkName == LandmarkName(text)
       IN runs' = [runs EXCEPT ![i].pc = "history",
                               ![i].identifyResponse = Ok(text),
                               ![i].landmarkName = landmarkName,
                               ![i].historyContents = HistoryPrompt(landmarkName),
                               ![i].calls = Append(@, "history")]
  /\ UNCHANGED <<appState, result, error, isPlaying, audioRef, audios, delivered>>

IdentifyFails(i) ==
  /\ runs[i].pc = "identify"
  /\ \E e \in ServiceErrors :
       runs' = [runs EXCEPT ![i] = OuterCatch([@ EXCEPT !.identifyResponse = Failed(e)], e)]
  /\ UNCHANGED <<appState, result, error, isPlaying, audioRef, audios, delivered>>

HistoryReturns(i) ==
  /\ runs[i].pc = "history"
  /\ \E text \in TextResponses :
       LET historyText == HistoryText(text)
       IN runs' = [runs EXCEPT ![i].pc = "tts",
                               ![i].historyResponse = Ok(text),
                               ![i].historyText = historyText,
                               ![i].ttsContents = historyText,
                               ![i].calls = Append(@, "tts")]
  /\ UNCHANGED <<appState, result, error, isPlaying, audioRef, audios, delivered>>

HistoryFails(i) ==
  /\ runs[i].pc = "history"
  /\ \E e \in ServiceErrors :
       runs' = [runs EXCEPT ![i] = OuterCatch([@ EXCEPT !.historyResponse = Failed(e)], e)]
  /\ UNCHANGED <<appState, result, error, isPlaying, audioRef, audios, delivered>>

\* return { landmark, history, audioBase64 }
Return(run, audioBase64) ==
  [run EXCEPT !.pc = "resolved",
              !.audioBase64 = audioBase64,
              !.returned = [t |-> "object", landmark |-> run.landmarkName,
                            history |-> run.historyText, audioBase64 |-> audioBase64]]

TtsReturns(i) ==
  /\ runs[i].pc = "tts"
  /\ \E resp \in TtsResponses :
       runs' = [runs EXCEPT ![i] = Return([@ EXCEPT !.ttsResponse = Ok(resp)],
                                          AudioBase64(resp))]
  /\ UNCHANGED <<appState, result, error, isPlaying, audioRef, audios, delivered>>

\* mutant: the inner catch issues the narration call again
TtsCatchRetry(run, e) ==
  [run EXCEPT !.pc = "tts", !.ttsResponse = NotYet, !.calls = Append(@, "tts")]
\* mutant: the narration failure reaches the outer catch
TtsCatchRethrow(run, e) == [run EXCEPT !.pc = "rejected", !.thrown = e]
\* the inner catch: log, audioBase64 stays null
TtsCatch(run, e) == Return(run, Null)

TtsFails(i) ==
  /\ runs[i].pc = "tts"
  /\ \E e \in ServiceErrors :
       runs' = [runs EXCEPT ![i] = TtsCatch([@ EXCEPT !.ttsResponse = Failed(e)], e)]
  /\ UNCHANGED <<appState, result, error, isPlaying, audioRef, audios, delivered>>

\* ------------------------------ handleFileSelect after await analyzePhoto
ResultData(run) ==
  [t |-> "object", imageSrc |-> run.readerResult,
   landmark |-> run.returned.landmark, history |-> run.returned.history,
   audioBase64 |-> run.returned.audioBase64]

AnalyzeResolved(i) ==
  /\ runs[i].pc = "resolved"
  /\ LET res == ResultData(runs[i])
         eff == ResultEffect(audios, audioRef, res)
     IN /\ Truthy(res.audioBase64) =>
             \E a \in AudioIds : Collect(EffectCleanup(audios, audioRef).audios, 0)[a] = NoAudio
        /\ result' = res
        /\ appState' = "result"
        /\ audios' = eff.audios
        /\ audioRef' = eff.audioRef
  /\ runs' = [runs EXCEPT ![i] = NoRun]
  /\ delivered' = runs[i]
  /\ UNCHANGED <<error, isPlaying>>

\* mutant: the message is stored without the fallback
ErrorMessageRaw(err) == err.message
\* err.message || "Failed to analyze photo"
ErrorMessage(err) == Or(err.message, Str(<<"Failed to analyze photo">>))

AnalyzeRejected(i) ==
  /\ runs[i].pc = "rejected"
  /\ error' = ErrorMessage(runs[i].thrown)
  /\ appState' = "idle"
  /\ runs' = [runs EXCEPT ![i] = NoRun]
  /\ delivered' = runs[i]
  /\ UNCHANGED <<result, isPlaying, audioRef, audios>>

\* ----------------------------------------------------------------- resetApp
\* mutant: the result is not cleared
resetAppKeepsResult ==
  /\ ResultViewMounted
  /\ audios' = IF audioRef # 0 THEN [audios EXCEPT ![audioRef] = Pause(@)] ELSE audios
  /\ appState' = "idle"
  /\ error' = Null
  /\ delivered' = NoRun
  /\ UNCHANGED <<result, audioRef, isPlaying, runs>>
\* mutant: the reset control is offered while analyzing too
resetAppAnytime ==
  /\ appState # "idle"
  /\ LET paused == IF audioRef # 0 THEN [audios EXCEPT ![audioRef] = Pause(@)] ELSE audios
         eff == ResultEffect(paused, audioRef, Null)
     IN /\ audios' = eff.audios
        /\ audioRef' = eff.audioRef
  /\ result' = Null
  /\ appState' = "idle"
  /\ error' = Null
  /\ delivered' = NoRun
  /\ UNCHANGED <<isPlaying, runs>>
resetApp ==
  /\ ResultViewMounted
  /\ LET paused == IF audioRef # 0 THEN [audios EXCEPT ![audioRef] = Pause(@)] ELSE audios
         eff == ResultEffect(paused, audioRef, Null)
     IN /\ audios' = eff.audios
        /\ audioRef' = eff.audioRef
  /\ result' = Null
  /\ appState' = "idle"
  /\ error' = Null
  /\ delivered' = NoRun
  /\ UNCHANGED <<isPlaying, runs>>

\* -------------------------------------------------------------- toggleAudio
toggleAudio ==
  /\ AudioControl \in {"Pause Guide", "Play Audio Guide"}
  /\ IF audioRef # 0
     THEN IF isPlaying
          THEN /\ audios' = [audios EXCEPT ![audioRef] = Pause(@)]
               /\ isPlaying' = FALSE
          ELSE /\ \E started \in BOOLEAN :
                    audios' = [audios EXCEPT ![audioRef].playing = started]
               /\ isPlaying' = TRUE
     ELSE UNCHANGED <<audios, isPlaying>>
  /\ UNCHANGED <<appState, result, error, audioRef, runs, delivered>>

\* ------------------------------------------- the promise of audio.play()
\* .then(() => setIsPlaying(true))
AutoplayStarted(a) ==
  /\ audios[a] # NoAudio
  /\ audios[a].playPending = "pending"
  /\ audios' = [audios EXCEPT ![a].playing = TRUE, ![a].playPending = "none"]
  /\ isPlaying' = TRUE
  /\ UNCHANGED <<appState, result, error, audioRef, runs, delivered>>

\* .catch(e => console.log("Autoplay prevented", e))
AutoplayPrevented(a) ==
  /\ audios[a] # NoAudio
  /\ audios[a].playPending \in {"pending", "aborted"}
  /\ audios' = Collect([audios EXCEPT ![a].playPending = "none"], audioRef)
  /\ UNCHANGED <<appState, result, error, isPlaying, audioRef, runs, delivered>>

\* the 'ended' listener: setIsPlaying(false)
AudioEnded(a) ==
  /\ audios[a] # NoAudio
  /\ audios[a].playing
  /\ audios' = [audios EXCEPT ![a].playing = FALSE]
  /\ isPlaying' = FALSE
  /\ UNCHANGED <<appState, result, error, audioRef, runs, delivered>>

Next ==
  \/ handleFileSelect
  \/ \E i \in Slots : ReaderLoadEnd(i)
  \/ \E i \in Slots : IdentifyReturns(i)
  \/ \E i \in Slots : IdentifyFails(i)
  \/ \E i \in Slots : HistoryReturns(i)
  \/ \E i \in Slots : HistoryFails(i)
  \/ \E i \in Slots : TtsReturns(i)
  \/ \E i \in Slots : TtsFails(i)
  \/ \E i \in Slots : AnalyzeResolved(i)
  \/ \E i \in Slots : AnalyzeRejected(i)
  \/ resetApp
  \/ toggleAudio
  \/ \E a \in AudioIds : AutoplayStarted(a)
  \/ \E a \in AudioIds : AutoplayPrevented(a)
  \/ \E a \in AudioIds : AudioEnded(a)

Spec == Init /\ [][Next]_vars

\* ================================================================ claims
\* every run the model still knows: the unfinished ones and the delivered one
KnownRuns == {runs[i] : i \in InFlight} \cup ({delivered} \ {NoRun})
\* the stage was called and the call threw
StageFailed(resp) == resp # NotYet /\ ~resp.ok
\* absent, empty or whitespace-only text
Blank(v) == v.t \in {"undefined", "null"} \/ \A k \in DOMAIN v.s : v.s[k] \in WhiteSpace
\* label is text without the whitespace around it
IsTrimOf(label, text) ==
  /\ label # <<>>
  /\ label[1] \notin WhiteSpace
  /\ label[Len(label)] \notin WhiteSpace
  /\ \E i \in 1..Len(text) :
       /\ i + Len(label) - 1 <= Len(text)
       /\ SubSeq(text, i, i + Len(label) - 1) = label
       /\ \A k \in 1..Len(text) :
            (k < i \/ k > i + Len(label) - 1) => text[k] \in WhiteSpace
\* the label a successful identification stands for
IsLabelOf(label, text) ==
  IF Blank(text) THEN label = UnknownLocation
  ELSE label.t = "string" /\ IsTrimOf(label.s, text.s)

\* C1: when the identification call or the history call fails, analyzePhoto
\* rejects with that very error and returns no result record, and the UI
\* holds no result either.
C1_FatalStageRejects ==
  \A r \in KnownRuns :
    \A resp \in {r.identifyResponse, r.historyResponse} :
      StageFailed(resp) =>
        /\ r.pc = "rejected"
        /\ r.thrown = resp.value
        /\ r.returned = Undefined
        /\ result = Null
C1_Witness ==
  \E i \in InFlight :
    /\ runs[i].pc = "rejected"
    /\ runs[i].identifyResponse.ok
    /\ StageFailed(runs[i].historyResponse)

\* C2: when identification and history succeeded and the narration call
\* fails, analyzePhoto does not reject: it returns the landmark and the
\* history of stages 1 and 2 with a null audio.
C2_NarrationFailureDegrades ==
  \A r \in KnownRuns :
    (r.identifyResponse.ok /\ r.historyResponse.ok /\ StageFailed(r.ttsResponse)) =>
      /\ r.pc = "resolved"
      /\ r.thrown = Undefined
      /\ r.returned.landmark = r.landmarkName
      /\ IsLabelOf(r.returned.landmark, r.identifyResponse.value)
      /\ r.returned.history = r.historyText
      /\ r.returned.audioBase64 = Null
C2_Witness ==
  \E i \in InFlight :
    /\ runs[i].pc = "resolved"
    /\ StageFailed(runs[i].ttsResponse)
    /\ runs[i].returned.landmark = Str(<<"E">>)

\* C3: the history call of a run carries the prompt built around the label
\* (trimmed, or the fallback) of the identification of the same run, and
\* that label is the landmark of the result the run returns and the UI shows.
C3_HistoryUsesOwnLabel ==
  \A r \in KnownRuns :
    r.identifyResponse.ok =>
      /\ IsLabelOf(r.landmarkName, r.identifyResponse.value)
      /\ r.historyContents = Str(<<PromptHead>> \o r.landmarkName.s \o <<PromptTail>>)
      /\ r.pc = "resolved" => r.returned.landmark = r.landmarkName
      /\ (r = delivered /\ r.pc = "resolved") => result.landmark = r.landmarkName
C3_Witness ==
  /\ delivered # NoRun
  /\ delivered.pc = "resolved"
  /\ delivered.identifyResponse.value = Str(<<" ", "E">>)
  /\ result.landmark = Str(<<"E">>)
  /\ isPlaying

\* C4: an identification that succeeds with absent, empty or whitespace-only
\* text gives the landmark "Unknown Location" and a history prompt built
\* with that string.
C4_BlankLabelFallback ==
  \A r \in KnownRuns :
    (r.identifyResponse.ok /\ Blank(r.identifyResponse.value)) =>
      /\ r.landmarkName = Str(<<"Unknown Location">>)
      /\ r.historyContents = Str(<<PromptHead, "Unknown Location", PromptTail>>)
      /\ r.pc = "resolved" => r.returned.landmark = Str(<<"Unknown Location">>)
      /\ (r = delivered /\ r.pc = "resolved") =>
           result.landmark = Str(<<"Unknown Location">>)
C4_Witness ==
  /\ delivered # NoRun
  /\ delivered.pc = "resolved"
  /\ delivered.identifyResponse.value = Str(<<" ", "\n">>)
  /\ result.landmark = Str(<<"Unknown Location">>)

\* C5: a history call that succeeds with absent, empty or whitespace-only
\* text gives the history "History not available.".
C5_BlankHistoryFallback ==
  \A r \in KnownRuns :
    (r.historyResponse.ok /\ Blank(r.historyResponse.value)) =>
      /\ r.historyText = Str(<<"History not available.">>)
      /\ r.pc = "resolved" => r.returned.history = Str(<<"History not available.">>)
      /\ (r = delivered /\ r.pc = "resolved") =>
           result.history = Str(<<"History not available.">>)
C5_Witness ==
  /\ delivered # NoRun
  /\ delivered.pc = "resolved"
  /\ delivered.historyResponse.value = Str(<<"\n", " ">>)
  /\ result.history = Str(<<"History not available.">>)

C7_NeverStuckAnalyzing ==
  InFlight = {} => appState # "analyzing"

WellFormedImageUrl(v) ==
  /\ v.t = "string"
  /\ \E k \in 4..(Len(v.s) - 1) :
       /\ v.s[1] = "data:"
       /\ v.s[2] = "image/"
       /\ v.s[k] = ";base64,"
       /\ \A j \in 3..(k - 1) : v.s[j] \in MimeChars
       /\ \A j \in (k + 1)..Len(v.s) : v.s[j] \notin {";base64,", "data:", "image/", "text/"}

\* C9: analyzePhoto is invoked only for a payload of the data-URL form, with
\* the mime type and the base64 data of that payload; a run whose payload is
\* not of that form ends at the file read.
C9_MalformedInputFailsFast ==
  \A r \in KnownRuns :
    r.pc # "reading" =>
      /\ WellFormedImageUrl(r.readerResult)
      /\ r.readerResult.s = <<"data:">> \o r.mimeType.s \o <<";base64,">> \o r.base64Image.s
\* a payload that was not decodable was read: the run is gone, no call was made
C9_Witness ==
  /\ appState = "analyzing"
  /\ InFlight = {}

Playing == {a \in AudioIds : audios[a] # NoAudio /\ audios[a].playing}

\* C11: a reset (the only step that leaves the result state) ends in idle
\* with result and error null, no audio handle held and no element playing.
C11_ResetClearsEverything ==
  [][(appState = "result" /\ appState' # "result") =>
       /\ appState' = "idle"
       /\ result' = Null
       /\ error' = Null
       /\ audioRef' = 0
       /\ Playing' = {}]_vars
\* idle after the reset of a result whose audio had been playing
C11_Witness ==
  /\ appState = "idle"
  /\ result = Null
  /\ error = Null
  /\ isPlaying
  /\ audioRef = 0
  /\ Playing = {}
  /\ InFlight = {}

\* C12: at most one Audio element is playing, and it is the one audioRef
\* holds; audioRef holds an element only for the audio of the result on
\* display, so the element of a previous result is paused and dropped
\* before the element of a new result exists.
C12_OneAudioHandle ==
  /\ Cardinality(Playing) <= 1
  /\ \A a \in Playing : a = audioRef
  /\ audioRef # 0 =>
       /\ audios[audioRef] # NoAudio
       /\ Truthy(result)
       /\ Truthy(result.audioBase64)
       /\ audios[audioRef].src = Str(<<"data:audio/mp3;base64,">> \o result.audioBase64.s)
\* the element of a second result plays while the dropped element of the
\* first one still waits for the rejection of its play() promise
C12_Witness ==
  /\ audioRef # 0
  /\ audios[audioRef].playing
  /\ \E a \in AudioIds \ {audioRef} :
       audios[a] # NoAudio /\ audios[a].playPending = "aborted" /\ ~audios[a].playing

\* the stages of analyzePhoto and the response a run has for each
Stages == <<"identify", "history", "tts">>
Response(r, stage) ==
  CASE stage = "identify" -> r.identifyResponse
    [] stage = "history" -> r.historyResponse
    [] stage = "tts" -> r.ttsResponse
\* the calls of a run that were issued and have not come back
Outstanding(r) ==
  {k \in DOMAIN r.calls : Response(r, r.calls[k]) = NotYet}
\* how often a run has called a stage
Times(r, stage) == Cardinality({k \in DOMAIN r.calls : r.calls[k] = stage})

\* C13: in a run, a call to a stage is issued only when the stage before it
\* has returned successfully (identification before history before
\* narration), and at most one call is outstanding.
C13_StrictlySequential ==
  \A r \in KnownRuns :
    /\ Cardinality(Outstanding(r)) <= 1
    /\ \A k \in DOMAIN r.calls :
         /\ k <= 3
         /\ r.calls[k] = Stages[k]
         /\ \A j \in 1..(k - 1) : Response(r, Stages[j]).ok
    /\ \A j \in 1..3 : Response(r, Stages[j]) # NotYet => j \in DOMAIN r.calls
    /\ r.historyContents # Undefined => r.identifyResponse.ok
    /\ r.ttsContents # Undefined => r.historyResponse.ok
\* the narration call is outstanding, the two calls before it have returned
C13_Witness ==
  \E i \in InFlight :
    /\ runs[i].calls = <<"identify", "history", "tts">>
    /\ Outstanding(runs[i]) = {3}
    /\ runs[i].identifyResponse.ok
    /\ runs[i].historyResponse.ok

\* C14: a run calls each of the three services at most once; after a failed
\* identification it has called nothing else, after a failed history call
\* it has not called the narration service.
C14_NoRetry ==
  \A r \in KnownRuns :
    /\ \A j \in 1..3 : Times(r, Stages[j]) <= 1
    /\ StageFailed(r.identifyResponse) => (Times(r, "history") = 0 /\ Times(r, "tts") = 0)
    /\ StageFailed(r.historyResponse) => Times(r, "tts") = 0
    /\ StageFailed(r.ttsResponse) => r.pc = "resolved"
\* the UI took the rejection of a run whose history call failed
C14_Witness ==
  /\ delivered # NoRun
  /\ StageFailed(delivered.historyResponse)
  /\ delivered.calls = <<"identify", "history">>
  /\ appState = "idle"
  /\ isPlaying

HasFirstPartAudio(resp) ==
  /\ resp.candidates.t = "array"
  /\ Len(resp.candidates.items) >= 1
  /\ Len(resp.candidates.items[1].content.parts) >= 1
  /\ resp.candidates.items[1].content.parts[1].inlineData.t = "object"
  /\ resp.candidates.items[1].content.parts[1].inlineData.data.t = "string"
  /\ resp.candidates.items[1].content.parts[1].inlineData.data.s # <<>>

\* C16: when the narration call succeeds the run resolves, with the inline
\* payload of the first part of the first candidate as audio when that is
\* present and non-empty, and with a null audio otherwise, also when a
\* later part carries audio.
C16_FirstPartAudioOnly ==
  \A r \in KnownRuns :
    r.ttsResponse.ok =>
      /\ r.pc = "resolved"
      /\ r.returned.landmark = r.landmarkName
      /\ r.returned.history = r.historyText
      /\ IF HasFirstPartAudio(r.ttsResponse.value)
         THEN r.returned.audioBase64 =
                r.ttsResponse.value.candidates.items[1].content.parts[1].inlineData.data
         ELSE r.returned.audioBase64 = Null
\* audio in the second part only: the result on display has no audio
C16_Witness ==
  /\ delivered # NoRun
  /\ delivered.ttsResponse = Ok([candidates |-> Candidates(<<TextPart, AudioPart(Str(<<"Q">>))>>)])
  /\ appState = "result"
  /\ result.audioBase64 = Null

C18_IsPlayingMeansPlaying ==
  /\ isPlaying => (audioRef # 0 /\ audioRef \in Playing)
  /\ AudioControl = "Pause Guide" => Playing # {}

====
